---------------------------- MODULE Spec2Model ----------------------------
(***************************************************************************)
(* A model of the turbulence generator of src/turbulence_generator.h.      *)
(*                                                                         *)
(* Number representation.  The integer code (the two Numerical Recipes     *)
(* generators, the step counter, the mode index) is modelled exactly.  The *)
(* double arithmetic is modelled in exact integer/rational arithmetic:     *)
(*   - box lengths Lx, Ly, Lz are positive integers and a wavevector       *)
(*     component is kept in units of 2 pi / (Lx Ly Lz), so that            *)
(*     kx = 2 pi ikx / Lx is the integer ikx * Ly * Lz;                    *)
(*   - magnitudes are compared through their squares;                      *)
(*   - a uniform deviate is its numerator iy over the generator's modulus; *)
(*   - an OU phase is an integer on a grid, the Gaussian deviate being     *)
(*     quantised to that grid;                                             *)
(*   - a decomposition coefficient is a fraction <<num, den>>, den = 0     *)
(*     standing for the NaN that 0.0/0.0 yields;                           *)
(*   - an amplitude is kept as the arguments of its formula.               *)
(* Rounding of doubles and the DBL_EPSILON margins are not modelled.       *)
(***************************************************************************)
EXTENDS Integers, Sequences, FiniteSets, TLC

VARIABLES
    pc,        \* "start" before init; "ready" once init returned; "exited" after exit(-1); "ub" after an out-of-bounds store
    par,       \* the parameters of tgd read from the parameter file
    n_modes,   \* tgd.n_modes
    mode,      \* tgd.mode: entry i+1 is <<mode[X][i], mode[Y][i], mode[Z][i]>>
    ampl,      \* tgd.ampl
    OUphases,  \* tgd.OUphases: entry i+1 is OUphases[i]
    aka,       \* tgd.aka: entry i+1 is <<aka[X][i], aka[Y][i], aka[Z][i]>>
    akb,       \* tgd.akb
    step,      \* tgd.step
    seed,      \* tgd.seed
    ran2st,    \* the statics of TurbGen_ran2: idum2, iy, iv
    file,      \* what is wrong with the parameter file init was called on: its kind and the key concerned
    call,      \* the last public call: its operation, its argument (time or pos), what it returned (init: rc, check_for_update: ret, get_turb_vector: v) and the trace of what it did
    rng        \* the generator harness: a state value handed to TurbGen_ran1s and the deviate returned

vars == <<pc, par, n_modes, mode, ampl, OUphases, aka, akb, step, seed, ran2st, file, call, rng>>

(***************************************************************************)
(* Bounds of the model.                                                    *)
(***************************************************************************)
\* capacity of the mode arrays; the source's tgd_max_n_modes is 100000 (line 55)
tgd_max_n_modes == 16
\* largest lattice index per axis in full sampling; the source's ikxmax is 256 (line 242).
\* No triple beyond k_max * Ly = 4 is in band for the parameter files below.
ikxmax == 4
\* largest OU step a host time may request
MaxStep == 1
\* number of calls the generator harness makes
MaxCalls == 8

\* host times are multiples of dt / TimeDen
TimeDen == 2

(***************************************************************************)
(* Macros (lines 36-37).                                                   *)
(***************************************************************************)
MIN(a, b) == IF a < b THEN a ELSE b
MAX(a, b) == IF a > b THEN a ELSE b

(***************************************************************************)
(* TurbGen_ran1s (lines 605-616).  A deviate is returned as its numerator  *)
(* over IM; RNMX = 1.0 - 1.2e-7 is RNMXnum / IM.                           *)
(* For 1 <= idum <= IM no product below leaves the 32-bit range.           *)
(***************************************************************************)
IA == 16807
IM == 2147483647
IQ == 127773
IR == 2836
RNMXnum == 2147483389

ran1s_reseed(idum) == IF idum <= 0 THEN MAX(-idum, 1) ELSE idum

ran1s(idum) ==
    LET s0 == ran1s_reseed(idum)
        k  == s0 \div IQ
        s1 == IA * (s0 - k * IQ) - IR * k
        s2 == IF s1 < 0 THEN s1 + IM ELSE s1
    IN  [idum |-> s2, ret |-> MIN(s2, RNMXnum)]

(***************************************************************************)
(* TurbGen_ran2 (lines 620-659).  st holds the statics idum2, iy, iv.      *)
(***************************************************************************)
IM1 == 2147483563
IM2 == 2147483399
IMM1 == IM1 - 1
IA1 == 40014
IA2 == 40692
IQ1 == 53668
IQ2 == 52774
IR1 == 12211
IR2 == 3791
NTAB == 32
NDIV == 1 + IMM1 \div NTAB
RNMXnum2 == 2147483305

\* IA1*(idum-k*IQ1)-k*IR1 with k = idum/IQ1 (lines 640-641 and 647-648)
ran2_lcg1(idum) == IA1 * (idum - (idum \div IQ1) * IQ1) - (idum \div IQ1) * IR1

\* one pass of the warm-up loop's body (lines 640-643): w = [j, idum, iv] before it
ran2_warmup_pass(w) ==
    IF ran2_lcg1(w.idum) < 0
    THEN [j |-> w.j - 1, idum |-> ran2_lcg1(w.idum) + IM1,
          iv |-> IF w.j < NTAB THEN [w.iv EXCEPT ![w.j] = ran2_lcg1(w.idum) + IM1] ELSE w.iv]
    ELSE [j |-> w.j - 1, idum |-> ran2_lcg1(w.idum),
          iv |-> IF w.j < NTAB THEN [w.iv EXCEPT ![w.j] = ran2_lcg1(w.idum)] ELSE w.iv]

\* the passes j = w.j down to lo of the warm-up loop, the upper half of them first
RECURSIVE ran2_warmup_passes(_, _)
ran2_warmup_passes(w, lo) ==
    IF w.j < lo THEN w
    ELSE IF w.j = lo THEN ran2_warmup_pass(w)
    ELSE ran2_warmup_passes(ran2_warmup_passes(w, (w.j + lo) \div 2 + 1), lo)

\* the warm-up loop, j = NTAB+7 down to 0 (lines 639-644)
ran2_warmup(j, idum, iv) == ran2_warmup_passes([j |-> j, idum |-> idum, iv |-> iv], 0)

ran2_statics0 == [idum2 |-> 123456789, iy |-> 0, iv |-> [j \in 0..(NTAB - 1) |-> 0]]

\* the draw proper (lines 647-658): idum, idum2, iy and iv as they are at line 647
ran2_draw(idum, idum2, iy, iv, init) ==
    LET i1  == IF ran2_lcg1(idum) < 0 THEN ran2_lcg1(idum) + IM1 ELSE ran2_lcg1(idum)
        k   == idum2 \div IQ2
        d2  == IF IA2 * (idum2 - k * IQ2) - k * IR2 < 0
               THEN IA2 * (idum2 - k * IQ2) - k * IR2 + IM2
               ELSE IA2 * (idum2 - k * IQ2) - k * IR2
        j   == iy \div NDIV
        iy1 == IF iv[j] - d2 < 1 THEN iv[j] - d2 + IMM1 ELSE iv[j] - d2
    IN  [idum |-> i1,
         st   |-> [idum2 |-> d2, iy |-> iy1, iv |-> [iv EXCEPT ![j] = i1]],
         init |-> init,
         ret  |-> MIN(iy1, RNMXnum2)]

\* after the initialisation (lines 637-645): i0 = MAX(-*idum, 1) and w the warm-up's result
ran2_initialised(i0, w) == ran2_draw(w.idum, i0, w.iv[0], w.iv, TRUE)

ran2(idum, st) ==
    IF idum <= 0 THEN ran2_initialised(MAX(-idum, 1), ran2_warmup(NTAB + 7, MAX(-idum, 1), st.iv))
    ELSE ran2_draw(idum, st.idum2, st.iy, st.iv, FALSE)

(***************************************************************************)
(* Derived quantities (lines 125-127) and the wavevector of a lattice      *)
(* triple (lines 255-260), all in units of 2 pi / (Lx Ly Lz).              *)
(***************************************************************************)
stir_min(p) == p.k_min * p.Ly * p.Lz
stir_max(p) == p.k_max * p.Ly * p.Lz

Kvec(p, ikx, iky, ikz) == <<ikx * p.Ly * p.Lz, iky * p.Lx * p.Lz, ikz * p.Lx * p.Ly>>

\* k*k of line 260, before the square root
Ksq(k) == k[1] * k[1] + k[2] * k[2] + k[3] * k[3]

\* InBand without the test of the upper edge of the band
InBandNoUpper(p, k) == stir_min(p) <= 0 \/ Ksq(k) >= stir_min(p) * stir_min(p)

\* (k >= tgd.stir_min) && (k <= tgd.stir_max), k = sqrt(Ksq) >= 0 (lines 261, 295, 391)
InBand(p, k) ==
    /\ stir_min(p) <= 0 \/ Ksq(k) >= stir_min(p) * stir_min(p)
    /\ stir_max(p) >= 0 /\ Ksq(k) <= stir_max(p) * stir_max(p)

\* the loop limits (lines 238-246)
ikymax(p) == IF p.ndim > 1 THEN ikxmax ELSE 0
ikzmax(p) == IF p.ndim > 2 THEN ikxmax ELSE 0

\* the triples (ikx, iky, ikz) in the order the three nested loops visit them
Lattice(p) ==
    LET ny == ikymax(p) + 1
        nz == ikzmax(p) + 1
    IN  [n \in 1..((ikxmax + 1) * ny * nz) |->
            <<(n - 1) \div (ny * nz), ((n - 1) \div nz) % ny, (n - 1) % nz>>]

\* how many modes one in-band triple adds (lines 262-264)
Multiplicity(p) == 1 + (IF p.ndim > 1 THEN 1 ELSE 0) + (IF p.ndim > 2 THEN 2 ELSE 0)

\* the triples of the lattice that pass the band test (lines 261 and 295), in loop order
InBandTriples(p) == SelectSeq(Lattice(p), LAMBDA t : InBand(p, Kvec(p, t[1], t[2], t[3])))

\* the counting pass (lines 253-268)
CountModes(p) == Multiplicity(p) * Len(InBandTriples(p))

\* the amplitude of a mode, kept as the arguments of its formula:
\* Band and Parabola (lines 297-301) depend on k only, Power Law (lines 399-403) on k, ik and nang
Amplitude(p, k, ik, nang) == [form |-> p.spect_form, k2 |-> Ksq(k), ik |-> ik, nang |-> nang]

\* tgd.n_modes++ and the stores at that index (lines 303-308, 312-317, 405-410);
\* acc.n_modes is the index last written, entry i+1 of a sequence is array element i.
\* A store at an index >= tgd_max_n_modes is outside the arrays: undefined behaviour,
\* recorded as status "oob", where the model of the run stops.
StoreMode(acc, k, a) ==
    IF acc.status # "run" THEN acc
    ELSE [acc EXCEPT !.n_modes = acc.n_modes + 1,
                     !.mode = Append(acc.mode, k),
                     !.ampl = Append(acc.ampl, a),
                     !.status = IF acc.n_modes + 1 >= tgd_max_n_modes THEN "oob" ELSE "run"]

\* StoreTriple storing the yz-mirror in the place of the z-mirror as well
StoreTripleNoZMirror(p, acc, k) ==
    LET a  == Amplitude(p, k, 0, 0)
        s1 == StoreMode(acc, k, a)
        s2 == IF p.ndim > 1 THEN StoreMode(s1, <<k[1], -k[2], k[3]>>, a) ELSE s1
    IN  IF p.ndim > 2
        THEN StoreMode(StoreMode(s2, <<k[1], -k[2], -k[3]>>, a), <<k[1], -k[2], -k[3]>>, a)
        ELSE s2

\* the modes one in-band triple stores: itself and its mirrors (lines 297-337)
StoreTriple(p, acc, k) ==
    LET a  == Amplitude(p, k, 0, 0)
        s1 == StoreMode(acc, k, a)
        s2 == IF p.ndim > 1 THEN StoreMode(s1, <<k[1], -k[2], k[3]>>, a) ELSE s1
        s3 == IF p.ndim > 2
              THEN StoreMode(StoreMode(s2, <<k[1], k[2], -k[3]>>, a), <<k[1], -k[2], -k[3]>>, a)
              ELSE s2
    IN  s3

\* the generating pass over the in-band triples tr[lo..hi], the lower half of them
\* first; it stops where the process does
RECURSIVE FullSamplingRange(_, _, _, _, _)
FullSamplingRange(p, tr, lo, hi, acc) ==
    IF lo > hi \/ acc.status # "run" THEN acc
    ELSE IF lo = hi THEN StoreTriple(p, acc, Kvec(p, tr[lo][1], tr[lo][2], tr[lo][3]))
    ELSE FullSamplingRange(p, tr, (lo + hi) \div 2 + 1, hi,
                           FullSamplingRange(p, tr, lo, (lo + hi) \div 2, acc))

\* the generating pass of Band and Parabola (lines 286-344) over the in-band triples
\* tr, from the n-th on
FullSampling(p, tr, n, acc) == FullSamplingRange(p, tr, n, Len(tr), acc)

(***************************************************************************)
(* Power-law sampling (lines 350-418).  The angles are computed from the   *)
(* deviates on a grid: phi = 2 pi u takes the 8 values 2 pi s / 8,         *)
(* cos(theta) = 1 - 2 u and the jitter u - 0.5 take the midpoints of 4     *)
(* equal cells of (0,1).  Sines and cosines are scaled by 1000.            *)
(***************************************************************************)
CosPhi == <<1000, 707, 0, -707, -1000, -707, 0, 707>>
SinPhi == <<0, 707, 1000, 707, 0, -707, -1000, -707>>
CosTheta == <<750, 250, -250, -750>>
SinTheta == <<661, 968, 968, 661>>

\* the cell, 0..n-1, of n equal cells of (0,1) that holds the deviate iy / m
Cell(iy, m, n) == iy \div (m \div n + 1)

\* round(num / den), halves away from zero, den > 0
Round(num, den) ==
    IF num >= 0 THEN (2 * num + den) \div (2 * den) ELSE -((den - 2 * num) \div (2 * den))

\* the lattice point of one angular sample (lines 372-387): u1, u2, u3 are the deviates
\* drawn for phi, theta and the radius (u2 is not drawn, and not used, for ndim < 3)
SamplePoint(ndim, ik, u1, u2, u3) ==
    LET s     == Cell(u1, IM1, Len(CosPhi))
        sphi  == IF ndim = 1 THEN (IF 2 * s < Len(CosPhi) THEN 0 ELSE Len(CosPhi) \div 2) ELSE s
        cphi  == CosPhi[sphi + 1]
        sinph == SinPhi[sphi + 1]
        t     == Cell(u2, IM1, Len(CosTheta))
        cth   == IF ndim > 2 THEN CosTheta[t + 1] ELSE 0
        sth   == IF ndim > 2 THEN SinTheta[t + 1] ELSE 1000
        nj    == Len(CosTheta)
        rand  == 2 * nj * ik + 2 * Cell(u3, IM1, nj) + 1 - nj     \* (ik + u3 - 0.5) * 2 nj
    IN  <<Round(rand * sth * cphi, 2 * nj * 1000000),
          IF ndim > 1 THEN Round(rand * sth * sinph, 2 * nj * 1000000) ELSE 0,
          IF ndim > 2 THEN Round(rand * cth, 2 * nj * 1000) ELSE 0>>

\* nang = pow(2.0, ndim) * ceil(pow(ik, angles_exp)) (line 367), angles_exp a natural number
Nang(p, ik) == (2 ^ p.ndim) * (ik ^ p.angles_exp)

\* acc after a ran2 call on tgd.seed that returned r; the call is appended to the trace
AfterDraw(acc, r) ==
    [acc EXCEPT !.seed = r.idum, !.st = r.st,
                !.draws = Append(acc.draws, [var |-> "tgd.seed", in |-> acc.seed,
                                             init |-> r.init, out |-> r.idum, ret |-> r.ret])]

\* TurbGen_ran2(&tgd.seed) inside the sampling loop
DrawSeed(acc) == AfterDraw(acc, ran2(acc.seed, acc.st))

\* tgd.n_modes + pow(2.0, ndim-1) > tgd_max_n_modes (lines 271 and 393)
TooMany(p, n) == n + 2 ^ (p.ndim - 1) > tgd_max_n_modes

\* the test and the store of one sample with wavevector k (lines 389-414)
SampleStore(p, ik, acc, k) ==
    IF ~InBand(p, k) THEN acc
    ELSE IF TooMany(p, acc.n_modes) THEN [acc EXCEPT !.status = "exit"]
    ELSE StoreMode(acc, k, Amplitude(p, k, ik, Nang(p, ik)))

\* the wavevector of one sample (lines 383-387) from the deviates last drawn
SampleK(p, ik, acc, pt) == SampleStore(p, ik, acc, Kvec(p, pt[1], pt[2], pt[3]))

\* one angular sample (lines 372-414): acc holds the two (ndim < 3) or three draws
SampleDrawn(p, ik, acc) ==
    LET n == Len(acc.draws)
    IN  SampleK(p, ik, acc,
                SamplePoint(p.ndim, ik,
                            acc.draws[IF p.ndim > 2 THEN n - 2 ELSE n - 1].ret,
                            acc.draws[n - 1].ret,
                            acc.draws[n].ret))

PowerLawSample(p, ik, acc) ==
    SampleDrawn(p, ik, IF p.ndim > 2 THEN DrawSeed(DrawSeed(DrawSeed(acc)))
                       ELSE DrawSeed(DrawSeed(acc)))

\* the loop over iang = lo..hi for one ik (lines 370-416), the lower half of the
\* samples first; it stops where the process does
RECURSIVE PowerLawAngles(_, _, _, _, _)
PowerLawAngles(p, ik, lo, hi, acc) ==
    IF lo > hi \/ acc.status # "run" THEN acc
    ELSE IF lo = hi THEN PowerLawSample(p, ik, acc)
    ELSE PowerLawAngles(p, ik, (lo + hi) \div 2 + 1, hi,
                        PowerLawAngles(p, ik, lo, (lo + hi) \div 2, acc))

\* the loops over ik and iang (lines 365-417); they stop where the process does
RECURSIVE PowerLawLoop(_, _, _, _)
PowerLawLoop(p, ik, iang, acc) ==
    IF acc.status # "run" \/ ik > p.k_max THEN acc
    ELSE PowerLawLoop(p, ik + 1, 1, PowerLawAngles(p, ik, iang, Nang(p, ik), acc))

\* the end of TurbGen_init_modes (line 420) for a pass that ran to its end
ModesDone(f) == IF f.status = "run" THEN [f EXCEPT !.status = "ok", !.n_modes = f.n_modes + 1] ELSE f

\* Band and Parabola (lines 269-345): tot is the result of the counting pass
FullSamplingModes(p, acc0, tot) ==
    IF TooMany(p, tot) THEN [acc0 EXCEPT !.status = "exit", !.n_modes = tot, !.tot_n_modes = tot]
    ELSE ModesDone(FullSampling(p, InBandTriples(p), 1, [acc0 EXCEPT !.tot_n_modes = tot]))

\* Power Law (lines 350-418): r0 is what TurbGen_ran2(&seed) returned for the local
\* int seed = -tgd.seed (lines 356-357)
PowerLawModes(p, acc0, tot, r0) ==
    ModesDone(PowerLawLoop(p, MAX(1, p.k_min), 1,
                  [acc0 EXCEPT !.st = r0.st, !.tot_n_modes = tot,
                               !.draws = <<[var |-> "seed", in |-> -(acc0.seed), init |-> r0.init,
                                            out |-> r0.idum, ret |-> r0.ret]>>]))

\* TurbGen_init_modes (lines 217-422), entered with tgd.seed = sd and ran2's statics st
TurbGen_init_modes(p, sd, st) ==
    IF p.spect_form # 2
    THEN FullSamplingModes(p, [status |-> "run", n_modes |-> -1, mode |-> <<>>, ampl |-> <<>>,
                               seed |-> sd, st |-> st, draws |-> <<>>, tot_n_modes |-> 0],
                           CountModes(p))
    ELSE PowerLawModes(p, [status |-> "run", n_modes |-> -1, mode |-> <<>>, ampl |-> <<>>,
                           seed |-> sd, st |-> st, draws |-> <<>>, tot_n_modes |-> 0],
                       CountModes(p), ran2(-sd, st))

(***************************************************************************)
(* TurbGen_grn (lines 590-601) on the grid: sqrt(2 log(1/r1)) is rounded   *)
(* down to 0..3 and cos(2 pi r2) to the nearest of -1, 0, 1.               *)
(* r1 > 0 on every seed that reaches this operator in Spec.                *)
(***************************************************************************)
GaussMag(r1) ==
    IF r1 > 1302514673 THEN 0 ELSE IF r1 > 290630307 THEN 1 ELSE IF r1 > 23856388 THEN 2 ELSE 3

CosTurn == <<1, 0, -1, -1, 0, 1>>

grn(sd) ==
    LET a == ran1s(sd)
        b == ran1s(a.idum)
    IN  [seed |-> b.idum, g1 |-> GaussMag(a.ret) * CosTurn[Cell(b.ret, IM, Len(CosTurn)) + 1]]

\* OUphases[i] = tgd.OUvar * g.g1 for the next i (line 499), g the deviate TurbGen_grn
\* drew for it; tgd.OUvar is one grid unit
OU_init_phase(st, g) == [OUphases |-> Append(st.OUphases, g.g1), seed |-> g.seed]

\* the loop of line 499 from the phases st = [OUphases, seed] set so far up to hi
\* phases, the lower half of them first
RECURSIVE OU_init_loop(_, _)
OU_init_loop(hi, st) ==
    IF Len(st.OUphases) >= hi THEN st
    ELSE IF Len(st.OUphases) + 1 = hi THEN OU_init_phase(st, grn(st.seed))
    ELSE OU_init_loop(hi, OU_init_loop((Len(st.OUphases) + hi) \div 2, st))

\* TurbGen_OU_noise_init (lines 495-500) for n modes, entered with tgd.seed = sd
TurbGen_OU_noise_init(n, sd) ==
    IF n <= 0 THEN [OUphases |-> <<>>, seed |-> sd]
    ELSE OU_init_loop(6 * n, [OUphases |-> <<>>, seed |-> sd])

\* damping_factor = exp(-dt/decay) (line 541) is DampNum / DampDen;
\* sqrt(1 - damping_factor^2) * OUvar is one grid unit
DampNum == 1
DampDen == 2

\* the body of the loop over the phases (lines 543-544): old holds the phases before
\* the call, st = [OUphases, seed, draws] those already updated, g the deviate
\* TurbGen_grn drew for the next one
OU_phase(old, st, g) ==
    [OUphases |-> Append(st.OUphases,
                         Round(old[Len(st.OUphases) + 1] * DampNum, DampDen) + g.g1),
     seed |-> g.seed, draws |-> st.draws + 1]

\* the loop over the phases (lines 542-545) from those updated so far up to hi phases,
\* the lower half of them first
RECURSIVE OU_phase_loop(_, _, _)
OU_phase_loop(hi, old, st) ==
    IF Len(st.OUphases) >= hi THEN st
    ELSE IF Len(st.OUphases) + 1 = hi THEN OU_phase(old, st, grn(st.seed))
    ELSE OU_phase_loop(hi, old, OU_phase_loop((Len(st.OUphases) + hi) \div 2, old, st))

OU_phases_update(n, old, sd) ==
    IF n <= 0 THEN [OUphases |-> old, seed |-> sd, draws |-> 0]
    ELSE OU_phase_loop(6 * n, old, [OUphases |-> <<>>, seed |-> sd, draws |-> 0])

\* OU_step_done counting the step down
OU_step_back(s, r) ==
    [s EXCEPT !.OUphases = r.OUphases, !.seed = r.seed, !.step = s.step - 1,
              !.log = Append(s.log, [ev |-> "OU", step |-> s.step - 1, draws |-> r.draws])]

\* tgd.step++ (line 546) after the loop returned r; the advance is appended to the trace
OU_step_done(s, r) ==
    [s EXCEPT !.OUphases = r.OUphases, !.seed = r.seed, !.step = s.step + 1,
              !.log = Append(s.log, [ev |-> "OU", step |-> s.step + 1, draws |-> r.draws])]

\* TurbGen_OU_noise_update (lines 541-547) on s = [OUphases, seed, step, aka, akb, log]
TurbGen_OU_noise_update(s, n) == OU_step_done(s, OU_phases_update(n, s.OUphases, s.seed))

(***************************************************************************)
(* TurbGen_get_decomposition_coeffs (lines 551-586).  tgd.sol_weight is    *)
(* p.sol_weight / WDen.  A coefficient is the fraction <<num, den>> with   *)
(* den = WDen * kk; kk = 0 gives <<0, 0>>, the NaN of 0.0/0.0.             *)
(***************************************************************************)
WDen == 2
NaN == <<0, 0>>
Zero == <<0, 1>>

\* a sum over the axes j < ndim
SumAxes(ndim, v) ==
    (IF ndim > 0 THEN v[1] ELSE 0) + (IF ndim > 1 THEN v[2] ELSE 0) + (IF ndim > 2 THEN v[3] ELSE 0)

\* kk, ka and kb of lines 557-564 for one mode: k its wavevector, ph its six phases
ModeSums(p, k, ph) ==
    [kk |-> SumAxes(p.ndim, [j \in 1..3 |-> k[j] * k[j]]),
     ka |-> SumAxes(p.ndim, [j \in 1..3 |-> k[j] * ph[2 * j]]),
     kb |-> SumAxes(p.ndim, [j \in 1..3 |-> k[j] * ph[2 * j - 1]])]

\* sol_weight*curl + (1-sol_weight)*div of lines 566-571 for axis j:
\* phase the OU phase of the curl term, kdiv the ka or kb of the div term
Coeff(p, k, j, phase, kdiv, kk) ==
    IF kk = 0 THEN NaN
    ELSE <<p.sol_weight * (kk * phase - k[j] * kdiv) + (WDen - p.sol_weight) * (k[j] * kdiv),
           WDen * kk>>

\* DecompMode with the loops of lines 565-572 over all three axes
DecompModeAllAxes(p, k, ph, olda, oldb) ==
    LET s == ModeSums(p, k, ph)
    IN  [aka |-> [j \in 1..3 |-> Coeff(p, k, j, ph[2*j - 1], s.kb, s.kk)],
         akb |-> [j \in 1..3 |-> Coeff(p, k, j, ph[2*j], s.ka, s.kk)]]

\* the new aka and akb of mode i (0-based); axes j >= ndim keep olda, oldb
DecompMode(p, k, ph, olda, oldb) ==
    LET s == ModeSums(p, k, ph)
    IN  [aka |-> [j \in 1..3 |-> IF j <= p.ndim THEN Coeff(p, k, j, ph[2*j - 1], s.kb, s.kk)
                                 ELSE olda[j]],
         akb |-> [j \in 1..3 |-> IF j <= p.ndim THEN Coeff(p, k, j, ph[2*j], s.ka, s.kk)
                                 ELSE oldb[j]]]

SixPhases(ph, i) == [m \in 1..6 |-> ph[6 * i + m]]

\* the arrays after the loop over the modes: dm[i] the new coefficients of mode i-1
DecompStore(s, dm, n) ==
    [s EXCEPT !.aka = [i \in 1..n |-> dm[i].aka],
              !.akb = [i \in 1..n |-> dm[i].akb],
              !.log = Append(s.log, [ev |-> "decomp", step |-> s.step, draws |-> 0])]

TurbGen_get_decomposition_coeffs(p, n, md, s) ==
    DecompStore(s, [i \in 1..n |-> DecompMode(p, md[i], SixPhases(s.OUphases, i - 1),
                                              s.aka[i], s.akb[i])], n)

(***************************************************************************)
(* TurbGen_check_for_update (lines 157-178).  The host time is             *)
(* t * dt / TimeDen.                                                       *)
(***************************************************************************)
\* floor(time / tgd.dt) (line 163)
step_requested(t) == t \div TimeDen

\* NoUpdate with < for <=
NoUpdateStrict(req, cur) == req < cur

\* step_requested <= tgd.step (line 165)
NoUpdate(req, cur) == req <= cur

\* UpdateLoop jumping to the requested step with a single advance
UpdateLoopOnce(is, req, s, n) == IF is < req THEN TurbGen_OU_noise_update(s, n) ELSE s

\* UpdateLoop reaching the requested step with one advance, the steps between skipped
UpdateLoopJump(is, req, s, n) ==
    IF is < req THEN [TurbGen_OU_noise_update(s, n) EXCEPT !.step = req] ELSE s

\* for (int is = tgd.step; is < step_requested; is++) TurbGen_OU_noise_update() (lines 170-173)
RECURSIVE UpdateLoop(_, _, _, _)
UpdateLoop(is, req, s, n) ==
    IF is < req THEN UpdateLoop(is + 1, req, TurbGen_OU_noise_update(s, n), n) ELSE s

\* UpdatePattern with the decomposition taken before the advances
UpdatePatternDecompFirst(p, n, md, s, req) ==
    UpdateLoop(s.step, req, TurbGen_get_decomposition_coeffs(p, n, md, s), n)

\* the update branch (lines 169-177)
UpdatePattern(p, n, md, s, req) ==
    TurbGen_get_decomposition_coeffs(p, n, md, UpdateLoop(s.step, req, s, n))

\* the whole call on s = [OUphases, seed, step, aka, akb, log]
TurbGen_check_for_update(p, n, md, s, t) ==
    IF NoUpdate(step_requested(t), s.step) THEN [s |-> s, ret |-> FALSE]
    ELSE [s |-> UpdatePattern(p, n, md, s, step_requested(t)), ret |-> TRUE]

\* the state TurbGen_init_turbulence_generator leaves (lines 136-148), for the modes md
\* and the result ou of TurbGen_OU_noise_init
StateAfterInit(p, n, md, ou) ==
    TurbGen_get_decomposition_coeffs(p, n, md,
        [OUphases |-> ou.OUphases, seed |-> ou.seed, step |-> -1,
         aka |-> [i \in 1..n |-> <<Zero, Zero, Zero>>],
         akb |-> [i \in 1..n |-> <<Zero, Zero, Zero>>],
         log |-> <<>>])

\* the state one TurbGen_check_for_update call at the time of step st leaves,
\* made in state s0 (lines 157-178)
StateAtStep(p, n, md, s0, st) ==
    [TurbGen_check_for_update(p, n, md, s0, TimeDen * st).s EXCEPT !.log = <<>>]

(***************************************************************************)
(* TurbGen_get_turb_vector (lines 182-213) at the positions                *)
(* (x, y, z) = (pos[1] Lx, pos[2] Ly, pos[3] Lz) / 4, where mode[j]*x is a *)
(* whole number of quarter turns.  The result is kept as the list of the   *)
(* modes' terms aka*real - akb*imag with their amplitudes; the factor      *)
(* 2 sol_weight_norm ampl and the sum over the modes are not evaluated.    *)
(***************************************************************************)
SinQ == <<0, 1, 0, -1>>
CosQ == <<1, 0, -1, 0>>

\* the length unit of axis j: mode[j] = lattice index * AxisUnit
AxisUnit(p, j) == IF j = 1 THEN p.Ly * p.Lz ELSE IF j = 2 THEN p.Lx * p.Lz ELSE p.Lx * p.Ly

\* mode[j][m] * position, in quarter turns, modulo a full turn
Turns(p, k, j, pos) == ((k[j] \div AxisUnit(p, j)) * pos[j]) % 4

Term(fa, fb, re, im) == IF fa[2] = 0 \/ fb[2] = 0 THEN NaN ELSE <<fa[1] * re - fb[1] * im, fa[2]>>

TurbGen_get_turb_vector(p, n, md, am, a, b, pos) ==
    [m \in 1..n |->
        LET sinx == SinQ[Turns(p, md[m], 1, pos) + 1]
            cosx == CosQ[Turns(p, md[m], 1, pos) + 1]
            siny == SinQ[Turns(p, md[m], 2, pos) + 1]
            cosy == CosQ[Turns(p, md[m], 2, pos) + 1]
            sinz == SinQ[Turns(p, md[m], 3, pos) + 1]
            cosz == CosQ[Turns(p, md[m], 3, pos) + 1]
            real == (cosx*cosy - sinx*siny) * cosz - (sinx*cosy + cosx*siny) * sinz
            imag == cosx * (cosy*sinz + siny*cosz) + sinx * (cosy*cosz - siny*sinz)
        IN  [ampl |-> am[m], v |-> [j \in 1..3 |-> Term(a[m][j], b[m][j], real, imag)]]]

(***************************************************************************)
(* The parameter files, the host times and the positions of the model.     *)
(***************************************************************************)
Boxes == {<<1, 1, 1>>, <<1, 2, 2>>}
RandomSeeds == {140281, -5}
AnglesExps == {1, 3}

\* the parameter files: angles_exp is read by the power-law branch only, and the
\* second seed and the second box are tried on the solenoidal weight 1/2
Params ==
    {p \in [ndim : 1..3, Lx : {1}, Ly : {1, 2}, Lz : {1, 2}, k_min : 0..1, k_max : 1..2,
            sol_weight : 0..WDen, spect_form : 0..2, angles_exp : AnglesExps,
            random_seed : RandomSeeds] :
        /\ <<p.Lx, p.Ly, p.Lz>> \in Boxes
        /\ p.spect_form # 2 => p.angles_exp = 1
        /\ 2 * p.sol_weight # WDen => p.random_seed = 140281 /\ p.Ly = 1}

Times == (-1)..(TimeDen * MaxStep + 1)
Positions == {<<0, 0, 0>>, <<1, 0, 0>>, <<1, 2, 3>>}

NoParams ==
    [ndim |-> 0, Lx |-> 0, Ly |-> 0, Lz |-> 0, k_min |-> 0, k_max |-> 0,
     sol_weight |-> 0, spect_form |-> 0, angles_exp |-> 0, random_seed |-> 0]
NoCall ==
    [op |-> "none", time |-> 0, pos |-> <<>>, rc |-> 0, ret |-> FALSE, v |-> <<>>, log |-> <<>>, draws |-> <<>>]
NoRng == [idum |-> 0, ret |-> 0, calls |-> 0]

(***************************************************************************)
(* The parameter file (lines 97-123 and 449-491).  A file holds the        *)
(* parameters p; it may be impossible to open ("nofile"), hold no line     *)
(* that starts with one key ("missing"), or hold for one key a value text  *)
(* that is no number ("garbled").                                          *)
(***************************************************************************)
\* the keys init reads, in the order it reads them (lines 106-123)
RequiredKeys ==
    <<"ndim", "xmin", "xmax", "ymin", "ymax", "zmin", "zmax", "velocity", "k_driv", "k_min",
      "k_max", "sol_weight", "spect_form", "power_law_exp", "angles_exp", "energy_coeff",
      "random_seed", "nsteps_per_turnover_time">>

\* the keys read straight into a field of tgd that the model keeps in par
TgdKeys == {"ndim", "sol_weight", "spect_form", "angles_exp", "random_seed"}

\* the keys whose value text is garbled in some file of the model
GarbledKeys == {"k_min", "k_max", "sol_weight", "spect_form", "angles_exp", "random_seed"}

NoDefect == [kind |-> "none", key |-> ""]

Defects ==
    {[kind |-> "nofile", key |-> ""]}
    \cup {[kind |-> "missing", key |-> RequiredKeys[i]] : i \in DOMAIN RequiredKeys}
    \cup {[kind |-> "garbled", key |-> k] : k \in GarbledKeys}

\* the files with a defect: one set of parameters per spectral form
DefectiveFiles ==
    {[p |-> q, defect |-> d] :
        q \in {r \in Params : /\ r.ndim = 2 /\ r.Ly = 1 /\ r.k_min = 1 /\ r.k_max = 1
                              /\ 2 * r.sol_weight = WDen /\ r.random_seed = 140281
                              /\ r.angles_exp = 1},
        d \in Defects}

\* TurbGen_read_from_parameter_file (lines 449-491) for the key search, whose value in a
\* sound file is value: exit(-1) when the file cannot be opened (line 460) or no line
\* starts with the key (lines 487-489); atoi/atof of the text after '=' (lines 480-481),
\* which is 0 for a text that is no number
TurbGen_read_from_parameter_file(f, search, value) ==
    IF f.defect.kind = "nofile" \/ (f.defect.kind = "missing" /\ f.defect.key = search)
    THEN [status |-> "exit", val |-> 0]
    ELSE IF f.defect.kind = "garbled" /\ f.defect.key = search
    THEN [status |-> "ok", val |-> 0]
    ELSE [status |-> "ok", val |-> value]

\* the place of a key in the order of the reads
KeyIndex(k) == CHOOSE i \in DOMAIN RequiredKeys : RequiredKeys[i] = k

\* fopen fails (lines 98-100) or one of the reads of lines 106-123 exits
ReadStops(f) ==
    \/ f.defect.kind = "nofile"
    \/ \E i \in DOMAIN RequiredKeys :
          TurbGen_read_from_parameter_file(f, RequiredKeys[i], 0).status = "exit"

\* the parameters after all reads returned (lines 106-127); the box lengths are sound
ParamsRead(f) ==
    [k \in DOMAIN f.p |->
        IF k \in {"Lx", "Ly", "Lz"} THEN f.p[k]
        ELSE TurbGen_read_from_parameter_file(f, k, f.p[k]).val]

\* the parameters tgd holds when a read exits: those of the keys read before it
ParamsAtExit(f) ==
    [k \in DOMAIN f.p |->
        IF f.defect.kind = "missing" /\ k \in TgdKeys /\ KeyIndex(k) < KeyIndex(f.defect.key)
        THEN f.p[k] ELSE 0]

\* the zero-initialised static tgd and the statics of ran2, before any call
Init ==
    /\ pc = "start"
    /\ par = NoParams
    /\ n_modes = 0
    /\ mode = <<>>
    /\ ampl = <<>>
    /\ OUphases = <<>>
    /\ aka = <<>>
    /\ akb = <<>>
    /\ step = 0
    /\ seed = 0
    /\ ran2st = ran2_statics0
    /\ file = NoDefect
    /\ call = NoCall
    /\ rng = NoRng

\* the state in which init_modes leaves the process when it does not return:
\* exit(-1) (lines 274, 396) or a store outside the arrays
InitStopped(p, im) ==
    /\ pc' = IF im.status = "exit" THEN "exited" ELSE "ub"
    /\ par' = p
    /\ n_modes' = im.n_modes
    /\ mode' = im.mode
    /\ ampl' = im.ampl
    /\ ran2st' = im.st
    /\ step' = -1
    /\ seed' = im.seed
    /\ call' = [NoCall EXCEPT !.op = "init", !.rc = -1, !.log = <<[ev |-> "modes", step |-> -1, draws |-> 0]>>, !.draws = im.draws]
    /\ UNCHANGED <<OUphases, aka, akb>>

\* the state in which init returns 0 (lines 144-152): s is the result of the decomposition
InitReturned(p, im, s) ==
    /\ pc' = "ready"
    /\ par' = p
    /\ n_modes' = im.n_modes
    /\ mode' = im.mode
    /\ ampl' = im.ampl
    /\ ran2st' = im.st
    /\ OUphases' = s.OUphases
    /\ aka' = s.aka
    /\ akb' = s.akb
    /\ step' = s.step
    /\ seed' = s.seed
    /\ call' = [NoCall EXCEPT !.op = "init", !.rc = 0, !.log = s.log, !.draws = im.draws]

\* TurbGen_OU_noise_init and TurbGen_get_decomposition_coeffs (lines 146-148);
\* tgd.step = -1 (line 136); aka and akb are the zero-initialised static arrays
InitPhases(p, im, ou) ==
    InitReturned(p, im,
        TurbGen_get_decomposition_coeffs(p, im.n_modes, im.mode,
            [OUphases |-> ou.OUphases, seed |-> ou.seed, step |-> -1,
             aka |-> [i \in 1..im.n_modes |-> <<Zero, Zero, Zero>>],
             akb |-> [i \in 1..im.n_modes |-> <<Zero, Zero, Zero>>],
             log |-> <<[ev |-> "modes", step |-> -1, draws |-> 0],
                      [ev |-> "OUinit", step |-> -1, draws |-> Len(ou.OUphases)]>>]))

InitModesDone(p, im) ==
    IF im.status = "ok" THEN InitPhases(p, im, TurbGen_OU_noise_init(im.n_modes, im.seed))
    ELSE InitStopped(p, im)

\* TurbGen_init_turbulence_generator (lines 88-153) on a readable, complete parameter file;
\* tgd.seed = tgd.random_seed (line 137)
TurbGenInit(p) ==
    /\ pc = "start"
    /\ InitModesDone(p, TurbGen_init_modes(p, p.random_seed, ran2st))
    /\ UNCHANGED <<file, rng>>

\* exit(-1) in fopen's test (line 100) or in a read (lines 460, 489): nothing but the
\* parameters read so far has been assigned
InitReadFailed(f) ==
    /\ pc' = "exited"
    /\ par' = ParamsAtExit(f)
    /\ call' = [NoCall EXCEPT !.op = "init", !.rc = -1]
    /\ UNCHANGED <<n_modes, mode, ampl, OUphases, aka, akb, step, seed, ran2st>>

\* init with the parameters p the reads returned
InitRead(p) == InitModesDone(p, TurbGen_init_modes(p, p.random_seed, ran2st))

\* TurbGen_init_turbulence_generator (lines 88-153) on a parameter file with a defect
TurbGenInitDefective(f) ==
    /\ pc = "start"
    /\ file' = f.defect
    /\ IF ReadStops(f) THEN InitReadFailed(f) ELSE InitRead(ParamsRead(f))
    /\ UNCHANGED rng

CheckReturned(t, r) ==
    /\ OUphases' = r.s.OUphases
    /\ seed' = r.s.seed
    /\ step' = r.s.step
    /\ aka' = r.s.aka
    /\ akb' = r.s.akb
    /\ call' = [NoCall EXCEPT !.op = "check", !.time = t, !.ret = r.ret, !.log = r.s.log]

CheckForUpdate(t) ==
    /\ pc = "ready"
    /\ CheckReturned(t, TurbGen_check_for_update(par, n_modes, mode,
                            [OUphases |-> OUphases, seed |-> seed, step |-> step,
                             aka |-> aka, akb |-> akb, log |-> <<>>], t))
    /\ UNCHANGED <<pc, par, n_modes, mode, ampl, ran2st, file, rng>>

\* GetTurbVector scaling the amplitudes in place: mode 0 loses its amplitude
GetTurbVectorInPlace(pos) ==
    /\ pc = "ready"
    /\ call' = [NoCall EXCEPT !.op = "eval", !.pos = pos,
                               !.v = TurbGen_get_turb_vector(par, n_modes, mode, ampl, aka, akb, pos)]
    /\ ampl' = [i \in 1..Len(ampl) |-> IF i = 1 THEN [ampl[i] EXCEPT !.k2 = 0] ELSE ampl[i]]
    /\ UNCHANGED <<pc, par, n_modes, mode, OUphases, aka, akb, step, seed, ran2st, file, rng>>

\* TurbGen_get_turb_vector (lines 182-213) called by the host at position pos
GetTurbVector(pos) ==
    /\ pc = "ready"
    /\ call' = [NoCall EXCEPT !.op = "eval", !.pos = pos,
                               !.v = TurbGen_get_turb_vector(par, n_modes, mode, ampl, aka, akb, pos)]
    /\ UNCHANGED <<pc, par, n_modes, mode, ampl, OUphases, aka, akb, step, seed, ran2st, file, rng>>

Next ==
    \/ \E p \in Params : TurbGenInit(p)
    \/ \E f \in DefectiveFiles : TurbGenInitDefective(f)
    \/ \E t \in Times : CheckForUpdate(t)
    \/ \E pos \in Positions : GetTurbVector(pos)

Spec == Init /\ [][Next]_vars

(***************************************************************************)
(* The generator harness: TurbGen_ran1s called MaxCalls times in a row on  *)
(* a state value that starts anywhere in HarnessSeeds.                     *)
(***************************************************************************)
HarnessSeeds ==
    {-IM, 1 - IM, -140281, -5, -1, 0, 1, 2, 3, 5, 7, 42, 16807, 127773, 140281, 1000000, IM - 1, IM}

RanInit ==
    /\ pc = "start" /\ par = NoParams /\ n_modes = 0 /\ mode = <<>> /\ ampl = <<>>
    /\ OUphases = <<>> /\ aka = <<>> /\ akb = <<>> /\ step = 0 /\ seed = 0
    /\ ran2st = ran2_statics0 /\ file = NoDefect /\ call = NoCall
    /\ rng \in {[idum |-> i, ret |-> 0, calls |-> 0] : i \in HarnessSeeds}

Ran1sCall ==
    /\ rng.calls < MaxCalls
    /\ LET r == ran1s(rng.idum)
       IN  rng' = [idum |-> r.idum, ret |-> r.ret, calls |-> rng.calls + 1]
    /\ UNCHANGED <<pc, par, n_modes, mode, ampl, OUphases, aka, akb, step, seed, ran2st, file, call>>

RanNext == Ran1sCall

SpecRan == RanInit /\ [][RanNext]_vars

(***************************************************************************)
(* Properties of TurbGen_check_for_update and of the step counter.         *)
(***************************************************************************)

\* C1: a check_for_update(time) call that finds floor(time/dt) above the current step
\* makes exactly (requested step - current step) OU advances one after another,
\* the i-th of them redrawing all 6*n_modes phases and taking step to current + i,
\* then recomputes the decomposition once, returns true and leaves step at the requested step.
C1_UpdateAdvancesStepByStep ==
    [][(pc = "ready" /\ call'.op = "check" /\ call'.time \div TimeDen > step) =>
          /\ call'.ret = TRUE
          /\ step' = call'.time \div TimeDen
          /\ Len(call'.log) = (step' - step) + 1
          /\ \A i \in 1..(step' - step) :
                call'.log[i] = [ev |-> "OU", step |-> step + i, draws |-> 6 * n_modes]
          /\ call'.log[Len(call'.log)] = [ev |-> "decomp", step |-> step', draws |-> 0]]_vars

\* a check_for_update call that made two OU advances and then the decomposition
C1_TwoAdvancesMade ==
    /\ pc = "ready" /\ call.op = "check" /\ call.ret = TRUE /\ n_modes > 0
    /\ Len(call.log) = 3 /\ call.log[2].ev = "OU" /\ call.log[2].step = step

\* C2: a check_for_update(time) call with floor(time/dt) at or below the current step
\* returns false and leaves step, seed, the OU phases and aka/akb unchanged; the second of
\* two consecutive calls with the same time is such a call.
C2_NoUpdateIsNoOp ==
    [][(pc = "ready" /\ call'.op = "check") =>
          /\ (call'.time \div TimeDen <= step) =>
                (call'.ret = FALSE /\ UNCHANGED <<step, seed, OUphases, aka, akb>>)
          /\ (call.op = "check" /\ call.time = call'.time) =>
                (call'.ret = FALSE /\ UNCHANGED <<step, seed, OUphases, aka, akb>>)]_vars

\* a check_for_update call that returned false on a time whose step had been reached before
C2_NoOpAfterAdvance ==
    /\ pc = "ready" /\ call.op = "check" /\ call.ret = FALSE
    /\ step >= 0 /\ call.time \div TimeDen = step /\ n_modes > 0

C4_NoStoreBeyondCap ==
    /\ pc \in {"start", "ready", "exited"}
    /\ Len(mode) <= tgd_max_n_modes
    /\ Len(ampl) <= tgd_max_n_modes
    /\ pc = "ready" => n_modes <= tgd_max_n_modes

\* C5: after init, every stored mode, the mirrored ones included, has
\* stir_min <= |k| <= stir_max (compared through the squares, in the wavevector unit).
C5_ModesInBand ==
    pc = "ready" =>
        /\ Len(mode) = n_modes
        /\ \A i \in 1..n_modes :
              /\ mode[i][1]^2 + mode[i][2]^2 + mode[i][3]^2 >= (par.k_min * par.Ly * par.Lz)^2
              /\ mode[i][1]^2 + mode[i][2]^2 + mode[i][3]^2 <= (par.k_max * par.Ly * par.Lz)^2

\* init has returned on the 1 x 2 x 2 box with the y-mirror of a lattice triple stored next to it
C5_MirroredModeStored ==
    /\ pc = "ready" /\ par.ndim = 3 /\ par.spect_form # 2 /\ par.Ly = 2
    /\ \E i \in 1..n_modes : mode[i][2] < 0 /\ mode[i - 1][2] = -mode[i][2]

\* C6: once init has returned, every later operation leaves n_modes, the wavevectors
\* and the amplitudes (and the parameters) unchanged.
C6_ModesFrozen == [][pc = "ready" => UNCHANGED <<n_modes, mode, ampl, par>>]_vars

\* the field has been evaluated after an update
C6_EvaluatedAfterUpdate ==
    /\ pc = "ready" /\ call.op = "eval" /\ step >= 0 /\ n_modes > 0 /\ Len(call.v) = n_modes

\* C7: whenever init or check_for_update has returned, aka and akb of every mode are
\* the decomposition of the current OU phases.
C7_CoefficientsCurrent ==
    pc = "ready" =>
        /\ Len(aka) = n_modes /\ Len(akb) = n_modes /\ Len(OUphases) = 6 * n_modes
        /\ \A i \in 1..n_modes :
              /\ aka[i] = DecompMode(par, mode[i], SixPhases(OUphases, i - 1), aka[i], akb[i]).aka
              /\ akb[i] = DecompMode(par, mode[i], SixPhases(OUphases, i - 1), aka[i], akb[i]).akb

\* check_for_update has returned true after changing a phase of a mode that has a wavevector
C7_UpdatedCoefficients ==
    /\ pc = "ready" /\ call.op = "check" /\ call.ret = TRUE /\ n_modes > 1
    /\ \E i \in 1..n_modes : \E j \in 1..par.ndim : aka[i][j][2] # 0 /\ aka[i][j][1] # 0

(***************************************************************************)
(* Properties of the generators and of the decomposition.                  *)
(***************************************************************************)

\* C9: whatever integer state TurbGen_ran1s is called on, the deviate it returns is
\* strictly above 0 and strictly below 1 (its numerator over IM lies in 1..IM-1).
C9_DeviateInOpenInterval == rng.calls > 0 => (0 < rng.ret /\ rng.ret < IM)

\* C10: with sol_weight = 1, after init or an update, k . aka = 0 and k . akb = 0 for
\* every mode (the coefficients of a mode share their denominator, which must not be 0).
C10_SolenoidalTransverse ==
    (pc = "ready" /\ par.sol_weight = WDen) =>
        \A i \in 1..n_modes :
            /\ \A j \in 1..3 : aka[i][j][2] # 0 /\ akb[i][j][2] # 0
            /\ mode[i][1] * aka[i][1][1] + mode[i][2] * aka[i][2][1] + mode[i][3] * aka[i][3][1] = 0
            /\ mode[i][1] * akb[i][1][1] + mode[i][2] * akb[i][2][1] + mode[i][3] * akb[i][3][1] = 0

\* C11: with sol_weight = 0, after init or an update, aka and akb of every mode are
\* scalar multiples of the mode's wavevector: every 2 x 2 minor of (k, aka) and of (k, akb)
\* vanishes (the coefficients of a mode share their denominator, which must not be 0).
C11_CompressiveParallel ==
    (pc = "ready" /\ par.sol_weight = 0) =>
        \A i \in 1..n_modes :
            /\ \A j \in 1..3 : aka[i][j][2] # 0 /\ akb[i][j][2] # 0
            /\ \A a, b \in 1..3 :
                  /\ mode[i][a] * aka[i][b][1] = mode[i][b] * aka[i][a][1]
                  /\ mode[i][a] * akb[i][b][1] = mode[i][b] * akb[i][a][1]

\* C12: init never returns with a stored mode whose wavevector components are all 0,
\* so kk of the decomposition is positive for every mode.
C12_NoZeroWavevector ==
    pc = "ready" =>
        \A i \in 1..n_modes :
            /\ mode[i] # <<0, 0, 0>>
            /\ mode[i][1]^2 + mode[i][2]^2 + mode[i][3]^2 > 0

\* C13: on a parameter file that cannot be opened, lacks a required key or holds an
\* unparseable value for one, init terminates the process: it builds no mode and
\* does not return 0.
C13_ConfigErrorsTerminate ==
    file.kind # "none" => (pc = "exited" /\ call.rc # 0 /\ mode = <<>> /\ n_modes = 0)

\* C14: for Band and Parabola, after init the modes come in groups of 2^(ndim-1)
\* consecutive modes of equal amplitude, one group per in-band lattice triple: the triple,
\* its y-mirror (ndim > 1), its z-mirror and its yz-mirror (ndim = 3); n_modes is
\* 2^(ndim-1) times the number of in-band triples, 0 when there is none.
C14_MirrorGroups ==
    (pc = "ready" /\ par.spect_form # 2) =>
        LET m  == 2 ^ (par.ndim - 1)
            T  == {t \in (0..ikxmax) \X (0..(IF par.ndim > 1 THEN ikxmax ELSE 0))
                                     \X (0..(IF par.ndim > 2 THEN ikxmax ELSE 0)) :
                      LET k2 == (t[1] * par.Ly * par.Lz)^2 + (t[2] * par.Lx * par.Lz)^2
                                + (t[3] * par.Lx * par.Ly)^2
                      IN  /\ k2 >= (par.k_min * par.Ly * par.Lz)^2
                          /\ k2 <= (par.k_max * par.Ly * par.Lz)^2}
        IN  /\ n_modes = m * Cardinality(T)
            /\ Len(mode) = n_modes /\ Len(ampl) = n_modes
            /\ {mode[g * m + 1] : g \in 0..(Cardinality(T) - 1)}
                  = {<<t[1] * par.Ly * par.Lz, t[2] * par.Lx * par.Lz, t[3] * par.Lx * par.Ly>> : t \in T}
            /\ \A g \in 0..(Cardinality(T) - 1) :
                  LET k == mode[g * m + 1]
                  IN  /\ \A i \in 1..m : ampl[g * m + i] = ampl[g * m + 1]
                      /\ par.ndim > 1 => mode[g * m + 2] = <<k[1], -k[2], k[3]>>
                      /\ par.ndim > 2 => /\ mode[g * m + 3] = <<k[1], k[2], -k[3]>>
                                         /\ mode[g * m + 4] = <<k[1], -k[2], -k[3]>>

\* init has returned with three groups of four modes on a 3D lattice
C14_ThreeGroupsOfFour ==
    /\ pc = "ready" /\ par.spect_form = 1 /\ par.ndim = 3 /\ n_modes = 12
    /\ mode[1][3] > 0 /\ mode[3] = <<mode[1][1], mode[1][2], -mode[1][3]>>
    /\ mode[5][2] > 0 /\ mode[6] = <<mode[5][1], -mode[5][2], mode[5][3]>>

\* C15: during power-law mode construction TurbGen_ran2 is initialised exactly once, by
\* its first call, made on a negative state value before the first angular sample, and
\* every later call is made on the state value the call before it left behind.
C15_Ran2StateThreaded ==
    (call.op = "init" /\ par.spect_form = 2 /\ Len(call.draws) > 0) =>
        /\ call.draws[1].init /\ call.draws[1].in < 0
        /\ \A i \in 2..Len(call.draws) :
              /\ ~call.draws[i].init
              /\ call.draws[i].in = call.draws[i - 1].out

\* the state of the generator that the path-independence property speaks of
CurrentState ==
    [OUphases |-> OUphases, seed |-> seed, step |-> step, aka |-> aka, akb |-> akb, log |-> <<>>]

\* s0 is a state init returns in, and one call from it on the time of the current
\* step yields the current state
SingleCallFrom(s0) ==
    /\ s0.step = -1
    /\ Len(s0.OUphases) = 6 * n_modes
    /\ StateAtStep(par, n_modes, mode, s0, step) = CurrentState

\* the same, from the phases ou that TurbGen_OU_noise_init leaves
SingleCallFromPhases(ou) ==
    /\ Len(ou.OUphases) = 6 * n_modes
    /\ SingleCallFrom(StateAfterInit(par, n_modes, mode, ou))

\* the same, from the seed sd0 that TurbGen_init_modes leaves
SingleCallFromSeed(sd0) ==
    /\ sd0 \in Int
    /\ SingleCallFromPhases(TurbGen_OU_noise_init(n_modes, sd0))

\* C16: the state depends on the step reached only, not on the calls that led to it:
\* step, seed, OU phases and aka/akb are those that a single check_for_update call
\* on the time of the current step yields from the state init returned in.
C16_PathIndependent ==
    pc = "ready" =>
        SingleCallFromSeed(TurbGen_init_modes(par, par.random_seed, ran2_statics0).seed)

\* step 1 has been reached by a call that made one advance, after an earlier call
\* had advanced to step 0
C16_ReachedInTwoCalls ==
    /\ pc = "ready" /\ call.op = "check" /\ call.ret /\ step = 1 /\ n_modes > 1
    /\ Len(call.log) = 2 /\ call.log[1].ev = "OU"

\* C17: for ndim < 3 every stored mode has wavevector component 0 on the axes
\* ndim..2 (1-based: ndim+1..3), so kk summed over the active axes is the full squared
\* magnitude, and aka and akb on those axes hold the value 0 after init and after
\* every sequence of updates.
C17_UnusedAxesZero ==
    (pc = "ready" /\ par.ndim < 3) =>
        \A i \in 1..n_modes :
            /\ \A j \in (par.ndim + 1)..3 :
                  /\ mode[i][j] = 0
                  /\ aka[i][j][1] = 0 /\ aka[i][j][2] # 0
                  /\ akb[i][j][1] = 0 /\ akb[i][j][2] # 0
            /\ ModeSums(par, mode[i], SixPhases(OUphases, i - 1)).kk
                  = mode[i][1]^2 + mode[i][2]^2 + mode[i][3]^2

\* a two-dimensional pattern after two updates whose first mode has a nonzero
\* coefficient on an active axis
C17_UpdatedPlanarPattern ==
    /\ pc = "ready" /\ par.ndim = 2 /\ step = 1 /\ n_modes > 0
    /\ call.op = "check" /\ call.ret
    /\ aka[1][1][2] # 0 /\ aka[1][1][1] # 0
    /\ mode[1][3] = 0 /\ aka[1][3] = Zero

=============================================================================
